---- MODULE Spec2Model ----
(***************************************************************************)
(* Health Atlas provider validator: the HTTP entry points of               *)
(* backend/main.py (validate_file, validate_single_provider,               *)
(* apply_provider, normalize_provider_data, format_result_for_frontend,    *)
(* get_confidence_breakdown) around the                                    *)
(* validation pipeline (agent.app.invoke).  The pipeline itself is not     *)
(* part of main.py; it is modelled from sections 3-7 of the specification. *)
(*                                                                         *)
(* Python dicts are functions with a set of string keys; d.get(k, default) *)
(* is Get(d, k, default).  Dimension values and scores are fixed-point:    *)
(* a dimension value v in [0,1] is the integer 1000*v, a weight w is the   *)
(* integer 100*w and a confidence score s is the integer 100000*s.         *)
(***************************************************************************)
EXTENDS Integers, Sequences, FiniteSets, TLC

\* ------------------------------------------------------------------------
\* Bounds of the model
\* ------------------------------------------------------------------------
\* largest number of records in an uploaded file
MaxRecords == 2
\* the dimension values of the scoring runs are the multiples of
\* 1/GridSteps in [0,1]
GridSteps == 3

\* ------------------------------------------------------------------------
\* Python values
\* ------------------------------------------------------------------------
None == "<None>"
EmptyDict == [k \in {} |-> ""]
Get(d, k, default) == IF k \in DOMAIN d THEN d[k] ELSE default
\* truth value of a string-or-None operand of Python's `or`
Truthy(v) == v # "" /\ v # None
PyOr(a, b) == IF Truthy(a) THEN a ELSE b
\* left-to-right fold of + over a sequence of integers
RECURSIVE SumSeq(_)
SumSeq(s) == IF s = <<>> THEN 0 ELSE Head(s) + SumSeq(Tail(s))
Min(a, b) == IF a < b THEN a ELSE b
Max(a, b) == IF a > b THEN a ELSE b

\* ------------------------------------------------------------------------
\* main.py constants
\* ------------------------------------------------------------------------
MAX_CONCURRENT_WORKERS == 5

CanonicalFields ==
  <<"full_name", "NPI", "address", "city", "state", "zip_code", "website",
    "specialty", "phone", "license_number", "last_updated">>

normalize_provider_data(provider_info) ==
  [f \in {CanonicalFields[i] : i \in 1..Len(CanonicalFields)} |->
     CASE f = "full_name" ->
            PyOr(Get(provider_info, "full_name", None), Get(provider_info, "fullName", ""))
       [] f = "NPI" ->
            PyOr(Get(provider_info, "NPI", None), Get(provider_info, "npi", ""))
       [] f = "zip_code" ->
            PyOr(Get(provider_info, "zip_code", None), Get(provider_info, "zipCode", ""))
       [] f = "license_number" ->
            PyOr(Get(provider_info, "license_number", None), Get(provider_info, "license", ""))
       [] f = "last_updated" ->
            PyOr(Get(provider_info, "last_updated", None),
                 Get(provider_info, "lastUpdated", "2024-01-01"))
       [] OTHER -> Get(provider_info, f, "")]

\* variant: the weight of the first dimension mistyped
BreakdownDimensions_mistyped ==
  <<[key |-> "identity",     weight |-> 30],
    [key |-> "address",      weight |-> 20],
    [key |-> "enrichment",   weight |-> 15],
    [key |-> "completeness", weight |-> 15],
    [key |-> "freshness",    weight |-> 10],
    [key |-> "risk",         weight |-> 5]>>

\* the dimensions list of get_confidence_breakdown: order and weights
BreakdownDimensions ==
  <<[key |-> "identity",     weight |-> 35],
    [key |-> "address",      weight |-> 20],
    [key |-> "enrichment",   weight |-> 15],
    [key |-> "completeness", weight |-> 15],
    [key |-> "freshness",    weight |-> 10],
    [key |-> "risk",         weight |-> 5]>>

DimensionKeys ==
  {"identity", "address", "completeness", "freshness", "enrichment", "risk"}
PositiveDimensions == DimensionKeys \ {"risk"}

\* int(v * 100) of a dimension value v
IntPercent(v) == v \div 10

\* get_confidence_breakdown: the radar-chart entries of one stored result
dimensions(score_breakdown) ==
  [i \in 1..Len(BreakdownDimensions) |->
     [key |-> BreakdownDimensions[i].key,
      score |-> IntPercent(Get(score_breakdown, BreakdownDimensions[i].key, 0)),
      max |-> 100,
      weight |-> BreakdownDimensions[i].weight]]

\* ------------------------------------------------------------------------
\* The validation pipeline (agent.app.invoke), modelled from the
\* specification: sections 3, 4.1-4.6 and 7
\* ------------------------------------------------------------------------
\* the five evidence sources, by their execution_metadata keys
SourceSet == {"nppes", "oig_leie", "state_board", "address", "web_enrichment"}
\* the key of the agent state that holds each source's evidence
EvidenceKey ==
  [s \in SourceSet |->
     CASE s = "nppes" -> "npi_result"
       [] s = "oig_leie" -> "oig_leie_result"
       [] s = "state_board" -> "state_board_result"
       [] s = "address" -> "address_result"
       [] OTHER -> "web_enrichment_data"]

\* status of an EvidenceResult (3)
CollectorStatuses == {"ok", "failed", "timeout"}

\* a payload value that the Conflict Detector cannot normalize (7 (c))
MALFORMED == "<malformed>"

\* Payloads a source can answer with.  Scores are in thousandths.
Payloads ==
  [s \in SourceSet |->
     CASE s = "nppes" ->
            { [result_count |-> 1, match_confidence |-> 1000,
               full_name |-> "JANE  DOE", address |-> "1 MAIN STREET"],
              [result_count |-> 1, match_confidence |-> 500,
               full_name |-> "John Roe", address |-> "9 Elm Ave"],
              [result_count |-> 0, match_confidence |-> 0],
              [result_count |-> 1, match_confidence |-> 1000,
               full_name |-> MALFORMED, address |-> "1 Main St"] }
       [] s = "oig_leie" -> { [is_excluded |-> FALSE], [is_excluded |-> TRUE] }
       [] s = "state_board" ->
            { [status |-> "Active", license_number |-> "A-100"],
              [status |-> "Expired", license_number |-> "A-100"] }
       [] s = "address" ->
            { [is_medical_facility |-> TRUE, address |-> "1 Main St"],
              [is_medical_facility |-> FALSE, address |-> "PO Box 7"] }
       [] OTHER ->
            { [digital_footprint_score |-> 1000], [digital_footprint_score |-> 600] }]

\* 4.1: a failing or timing-out call yields the empty-evidence default
Evidence(response) ==
  IF response.status = "ok" THEN response.payload ELSE EmptyDict

\* 4.3: case-insensitive, whitespace-collapsed comparison form with the
\* address abbreviations expanded, over the strings of the model
NormalizeText(v) ==
  CASE v \in {"Jane Doe", "JANE  DOE"} -> "jane doe"
    [] v \in {"1 Main St", "1 MAIN STREET"} -> "1 main street"
    [] v = "John Roe" -> "john roe"
    [] v = "9 Elm Ave" -> "9 elm avenue"
    [] v = "PO Box 7" -> "po box 7"
    [] OTHER -> v

\* the fields the Conflict Detector compares, source by source in the fixed
\* priority order identity-registry, license-board, address (the payloads of
\* the exclusion list and of the web enrichment repeat no input field)
ConflictCandidates ==
  <<[source |-> "nppes", field |-> "full_name"],
    [source |-> "nppes", field |-> "address"],
    [source |-> "state_board", field |-> "license_number"],
    [source |-> "address", field |-> "address"]>>

\* 4.3: the fields present in both the input and a source's payload
ComparedFields(initial_data, evidence) ==
  LET Present(c) == /\ c.field \in DOMAIN evidence[c.source]
                    /\ initial_data[c.field] # ""
  IN SelectSeq(ConflictCandidates, Present)

\* 7 (c): a payload the Conflict Detector cannot normalize is an
\* InternalFault of the Reconciling stage
ReconcilingFaults(initial_data, evidence) ==
  LET cs == ComparedFields(initial_data, evidence)
  IN \E i \in 1..Len(cs) : evidence[cs[i].source][cs[i].field] = MALFORMED

\* 4.3: the ConflictSet
DetectConflicts(initial_data, evidence) ==
  LET cs == ComparedFields(initial_data, evidence)
      Mismatch(c) == NormalizeText(initial_data[c.field])
                       # NormalizeText(evidence[c.source][c.field])
      ms == SelectSeq(cs, Mismatch)
  IN [i \in 1..Len(ms) |->
        [field |-> ms[i].field, input_value |-> initial_data[ms[i].field],
         source_value |-> evidence[ms[i].source][ms[i].field],
         source |-> ms[i].source]]

\* variant: the weight of the risk dimension stored with its sign, and
\* subtracted once more by the weighted sum
WEIGHT_signed_risk ==
  [d \in DimensionKeys |->
     CASE d = "identity" -> 35 [] d = "address" -> 20 [] d = "enrichment" -> 15
       [] d = "completeness" -> 15 [] d = "freshness" -> 10 [] OTHER -> 0 - 5]

\* 4.5: the tunable policy surface, as named constants
WEIGHT ==
  [d \in DimensionKeys |->
     CASE d = "identity" -> 35 [] d = "address" -> 20 [] d = "enrichment" -> 15
       [] d = "completeness" -> 15 [] d = "freshness" -> 10 [] OTHER -> 5]
ONE == 1000
SCORE_ONE == 100000
PLATINUM_THRESHOLD == 85000
GOLD_THRESHOLD == 60000
REVIEW_SCORE_THRESHOLD == 50000
CONFLICT_REVIEW_THRESHOLD == 2
HIGH_SEVERITY == 500
FRESH_DAYS == 90
FRESHNESS_HORIZON_DAYS == 730
FRESHNESS_FLOOR == 200
STALE_DAYS == 730

\* elapsed days between a last-updated date and the day of the run
AgeDays(last_updated) ==
  CASE last_updated = "2026-10-01" -> 31
    [] last_updated = "2025-11-01" -> 365
    [] OTHER -> 1035

\* 4.4: the fixed, ordered list of fraud predicates with their severities
FraudPredicates ==
  <<[name |-> "exclusion_list_hit", severity |-> 1000],
    [name |-> "license_not_active", severity |-> 600],
    [name |-> "non_medical_address", severity |-> 300],
    [name |-> "npi_zero_match", severity |-> 500],
    [name |-> "stale_last_updated", severity |-> 200],
    [name |-> "high_conflict_count", severity |-> 300]>>

ExclusionHit(evidence) == Get(evidence["oig_leie"], "is_excluded", FALSE)

Triggered(name, initial_data, evidence, conflicts) ==
  CASE name = "exclusion_list_hit" -> ExclusionHit(evidence)
    [] name = "license_not_active" ->
         /\ initial_data["license_number"] # ""
         /\ "status" \in DOMAIN evidence["state_board"]
         /\ evidence["state_board"]["status"] # "Active"
    [] name = "non_medical_address" ->
         /\ "is_medical_facility" \in DOMAIN evidence["address"]
         /\ ~evidence["address"]["is_medical_facility"]
    [] name = "npi_zero_match" -> Get(evidence["nppes"], "result_count", 0) = 0
    [] name = "stale_last_updated" -> AgeDays(initial_data["last_updated"]) > STALE_DAYS
    [] OTHER -> Len(conflicts) > CONFLICT_REVIEW_THRESHOLD

\* 4.4: the FraudIndicatorSet, order-stable by predicate definition order
FraudIndicators(initial_data, evidence, conflicts) ==
  LET Fires(p) == Triggered(p.name, initial_data, evidence, conflicts)
  IN SelectSeq(FraudPredicates, Fires)

\* 4.5: the six dimensions of the ScoreBreakdown
ScoreBreakdown(initial_data, evidence, indicators) ==
  [d \in DimensionKeys |->
     CASE d = "identity" ->
            IF Get(evidence["nppes"], "result_count", 0) > 0
            THEN Get(evidence["nppes"], "match_confidence", 0) ELSE 0
       [] d = "address" ->
            IF "is_medical_facility" \notin DOMAIN evidence["address"] THEN 0
            ELSE IF evidence["address"]["is_medical_facility"] THEN ONE ELSE ONE \div 2
       [] d = "completeness" ->
            (Cardinality({f \in DOMAIN initial_data : initial_data[f] # ""}) * ONE)
              \div Len(CanonicalFields)
       [] d = "freshness" ->
            LET age == AgeDays(initial_data["last_updated"])
            IN IF age <= FRESH_DAYS THEN ONE
               ELSE Max(FRESHNESS_FLOOR,
                        ONE - ((age - FRESH_DAYS) * ONE)
                                \div (FRESHNESS_HORIZON_DAYS - FRESH_DAYS))
       [] d = "enrichment" -> Get(evidence["web_enrichment"], "digital_footprint_score", 0)
       [] OTHER ->
            Min(ONE, SumSeq([i \in 1..Len(indicators) |-> indicators[i].severity]))]

Clamp(x, lo, hi) == Max(lo, Min(hi, x))

\* 4.5: confidence_score
ConfidenceScore(breakdown) ==
  Clamp(SumSeq([i \in 1..Len(BreakdownDimensions) |->
                  LET d == BreakdownDimensions[i].key
                  IN IF d = "risk" THEN 0 - WEIGHT[d] * breakdown[d]
                     ELSE WEIGHT[d] * breakdown[d]]),
        0, SCORE_ONE)

\* 4.5: tier mapping
ConfidenceTier(score, indicators) ==
  IF /\ score >= PLATINUM_THRESHOLD
     /\ \A i \in 1..Len(indicators) : indicators[i].severity < HIGH_SEVERITY
  THEN "PLATINUM"
  ELSE IF score >= GOLD_THRESHOLD THEN "GOLD" ELSE "QUESTIONABLE"

\* 4.5: path mapping, with the exclusion-list override
Path(tier, indicators, excluded) ==
  IF tier = "QUESTIONABLE" \/ excluded THEN "RED"
  ELSE IF tier = "PLATINUM" /\ indicators = <<>> THEN "GREEN"
  ELSE "YELLOW"

\* 4.6: the conditions that trigger human review, in order
ReviewConditions(path, score, conflicts) ==
  LET all == <<[name |-> "red_path", holds |-> path = "RED"],
               [name |-> "low_confidence_yellow",
                holds |-> path = "YELLOW" /\ score < REVIEW_SCORE_THRESHOLD],
               [name |-> "conflict_count",
                holds |-> Len(conflicts) > CONFLICT_REVIEW_THRESHOLD]>>
      Holds(c) == c.holds
      hs == SelectSeq(all, Holds)
  IN [i \in 1..Len(hs) |-> hs[i].name]

\* 4.6: source-priority resolution of one output field, with its provenance
Resolve(field, source, initial_data, evidence) ==
  IF field \in DOMAIN evidence[source]
  THEN [value |-> evidence[source][field], provenance |-> source]
  ELSE [value |-> initial_data[field], provenance |-> "input"]

GoldenFields ==
  <<[field |-> "full_name", source |-> "nppes"],
    [field |-> "address", source |-> "address"],
    [field |-> "license_number", source |-> "state_board"]>>

GoldenRecord(initial_data, evidence) ==
  [f \in {GoldenFields[i].field : i \in 1..Len(GoldenFields)} |->
     LET g == CHOOSE x \in {GoldenFields[i] : i \in 1..Len(GoldenFields)} : x.field = f
     IN Resolve(f, g.source, initial_data, evidence).value]

DataProvenance(initial_data, evidence) ==
  [f \in {GoldenFields[i].field : i \in 1..Len(GoldenFields)} |->
     LET g == CHOOSE x \in {GoldenFields[i] : i \in 1..Len(GoldenFields)} : x.field = f
     IN Resolve(f, g.source, initial_data, evidence).provenance]

\* the state that both entry points of main.py hand to the pipeline
InitialState(normalized_data) ==
  [initial_data |-> normalized_data,
   log |-> <<>>,
   npi_result |-> EmptyDict,
   oig_leie_result |-> EmptyDict,
   state_board_result |-> EmptyDict,
   address_result |-> EmptyDict,
   web_enrichment_data |-> EmptyDict,
   digital_footprint_score |-> 0,
   qa_flags |-> <<>>,
   qa_corrections |-> EmptyDict,
   fraud_indicators |-> <<>>,
   conflicting_data |-> <<>>,
   golden_record |-> EmptyDict,
   confidence_score |-> 0,
   confidence_breakdown |-> EmptyDict,
   requires_human_review |-> FALSE,
   review_reason |-> <<>>,
   final_profile |-> EmptyDict,
   execution_metadata |-> EmptyDict,
   data_provenance |-> EmptyDict,
   quality_metrics |-> EmptyDict]

\* the evidence of the five sources as the agent state holds it
EvidenceOf(state) == [s \in SourceSet |-> state[EvidenceKey[s]]]

\* 4.2 Collecting: one source's EvidenceResult enters the agent state
StoreEvidence(state, s, response) ==
  LET ev == Evidence(response)
      base == [state EXCEPT ![EvidenceKey[s]] = ev,
                            !["execution_metadata"] =
                               (s :> [status |-> response.status]) @@ @]
  IN IF s = "web_enrichment"
     THEN [base EXCEPT !["digital_footprint_score"] =
                          Get(ev, "digital_footprint_score", 0)]
     ELSE base

\* 4.2 Reconciling: Conflict Detector, then Fraud Heuristics Engine
Reconcile(state) ==
  LET conflicts == DetectConflicts(state.initial_data, EvidenceOf(state))
  IN [state EXCEPT !["conflicting_data"] = conflicts,
                   !["fraud_indicators"] =
                      FraudIndicators(state.initial_data, EvidenceOf(state), conflicts)]

\* 4.2 Scoring
Score(state) ==
  LET breakdown == ScoreBreakdown(state.initial_data, EvidenceOf(state),
                                  state.fraud_indicators)
      score == ConfidenceScore(breakdown)
      tier == ConfidenceTier(score, state.fraud_indicators)
  IN [state EXCEPT !["confidence_score"] = score,
                   !["confidence_breakdown"] = breakdown,
                   !["quality_metrics"] =
                      [score_breakdown |-> breakdown,
                       confidence_tier |-> tier,
                       path |-> Path(tier, state.fraud_indicators,
                                     ExclusionHit(EvidenceOf(state))),
                       risk_score |-> breakdown["risk"],
                       fraud_indicator_count |-> Len(state.fraud_indicators),
                       conflict_count |-> Len(state.conflicting_data)]]

\* 4.2 Finalized: Golden Record Builder and Review Router
Finalize(state) ==
  LET reasons == ReviewConditions(state.quality_metrics["path"],
                                  state.confidence_score, state.conflicting_data)
  IN [state EXCEPT !["golden_record"] =
                      GoldenRecord(state.initial_data, EvidenceOf(state)),
                   !["data_provenance"] =
                      DataProvenance(state.initial_data, EvidenceOf(state)),
                   !["requires_human_review"] = reasons # <<>>,
                   !["review_reason"] = reasons]

\* the state after Collecting, given the five responses
RECURSIVE Collect(_, _, _)
Collect(state, responses, todo) ==
  IF todo = {} THEN state
  ELSE LET s == CHOOSE x \in todo : TRUE
       IN Collect(StoreEvidence(state, s, responses[s]), responses, todo \ {s})

\* whether a run over these responses ends in an InternalFault
Faults(initial_state, responses) ==
  ReconcilingFaults(initial_state.initial_data,
                    EvidenceOf(Collect(initial_state, responses, SourceSet)))

\* validation_agent_app.invoke on a run that does not fault
invoke(initial_state, responses) ==
  Finalize(Score(Reconcile(Collect(initial_state, responses, SourceSet))))

\* ------------------------------------------------------------------------
\* main.py: result formatting and error results
\* ------------------------------------------------------------------------
\* variant: the test for a missing score_breakdown inverted
result_score_breakdown_inverted(quality_metrics) ==
  LET sb == Get(quality_metrics, "score_breakdown", EmptyDict)
  IN IF DOMAIN sb # {} THEN [d \in DimensionKeys |-> 0] ELSE sb

\* score_breakdown, with all-zero dimensions when the pipeline gave none
result_score_breakdown(quality_metrics) ==
  LET sb == Get(quality_metrics, "score_breakdown", EmptyDict)
  IN IF DOMAIN sb = {} THEN [d \in DimensionKeys |-> 0] ELSE sb

\* variant: the tier read under the key "tier"
result_tier_wrong_key(quality_metrics) == Get(quality_metrics, "tier", "UNKNOWN")

\* tier = quality_metrics.get("confidence_tier", "UNKNOWN")
result_tier(quality_metrics) == Get(quality_metrics, "confidence_tier", "UNKNOWN")

\* variant: a missing path reported as RED
result_path_defaulting_red(quality_metrics) == Get(quality_metrics, "path", "RED")

\* variant: the path read under the key "validation_path"
result_path_wrong_key(quality_metrics) == Get(quality_metrics, "validation_path", "UNKNOWN")

\* "path": quality_metrics.get("path", "UNKNOWN")
result_path(quality_metrics) == Get(quality_metrics, "path", "UNKNOWN")

\* variant: the flag read under the key "requires_review"
result_requires_human_review_wrong_key(final_result) ==
  Get(final_result, "requires_review", FALSE)

\* "requires_human_review": final_result.get("requires_human_review", False)
result_requires_human_review(final_result) ==
  Get(final_result, "requires_human_review", FALSE)

\* variant: the reason read under the key "reason"
result_review_reason_wrong_key(final_result) == Get(final_result, "reason", <<>>)

\* "review_reason": final_result.get("review_reason", "")
result_review_reason(final_result) == Get(final_result, "review_reason", <<>>)

format_result_for_frontend(final_result, provider_info) ==
  LET quality_metrics == Get(final_result, "quality_metrics", EmptyDict)
      score_breakdown == result_score_breakdown(quality_metrics)
      dp == Get(quality_metrics, "dimension_percentages", EmptyDict)
      dimension_percentages ==
        IF DOMAIN dp = {}
        THEN [k \in (DOMAIN score_breakdown \ {"risk"}) \cup {"risk_penalty"} |->
                IF k = "risk_penalty"
                THEN IntPercent(Get(score_breakdown, "risk", 0))
                ELSE IntPercent(score_breakdown[k])]
        ELSE dp
      tier == result_tier(quality_metrics)
      tier_emoji == CASE tier = "PLATINUM" -> "green"
                      [] tier = "GOLD" -> "yellow"
                      [] tier = "QUESTIONABLE" -> "red"
                      [] OTHER -> "chart"
      fp == Get(final_result, "final_profile", EmptyDict)
      gr == Get(final_result, "golden_record", EmptyDict)
  IN [original_data |-> provider_info,
      final_profile |->
        IF DOMAIN fp # {} THEN fp
        ELSE IF DOMAIN gr # {} THEN gr
        ELSE [provider_name |-> Get(provider_info, "full_name", "Unknown Provider"),
              npi |-> Get(provider_info, "NPI", "N/A"),
              specialty |-> Get(provider_info, "specialty", "N/A")],
      confidence_score |-> Get(final_result, "confidence_score", 0),
      requires_human_review |-> result_requires_human_review(final_result),
      review_reason |-> result_review_reason(final_result),
      path |-> result_path(quality_metrics),
      qa_flags |-> Get(final_result, "qa_flags", <<>>),
      fraud_indicators |-> Get(final_result, "fraud_indicators", <<>>),
      qa_corrections |-> Get(final_result, "qa_corrections", EmptyDict),
      quality_metrics |->
        [score_breakdown |-> score_breakdown,
         dimension_percentages |-> dimension_percentages,
         confidence_tier |-> tier,
         tier_emoji |-> tier_emoji,
         tier_description |-> Get(quality_metrics, "tier_description", ""),
         flag_severity |-> Get(quality_metrics, "flag_severity", EmptyDict),
         risk_score |-> Get(quality_metrics, "risk_score", 0),
         fraud_indicator_count |-> Get(quality_metrics, "fraud_indicator_count", 0),
         conflict_count |-> Get(quality_metrics, "conflict_count", 0)]
        @@ quality_metrics,
      execution_metadata |-> Get(final_result, "execution_metadata", EmptyDict),
      verification_status |->
        [nppes_verified |->
           Get(Get(final_result, "npi_result", EmptyDict), "result_count", 0) # 0,
         oig_clear |->
           ~Get(Get(final_result, "oig_leie_result", EmptyDict), "is_excluded", FALSE),
         license_active |->
           Get(Get(final_result, "state_board_result", EmptyDict), "status", None) = "Active",
         address_validated |->
           Get(Get(final_result, "address_result", EmptyDict), "is_medical_facility", FALSE),
         digital_footprint_score |-> Get(final_result, "digital_footprint_score", 0)]]

\* the text of an exception, str(e); an exception may carry no text
ErrorTexts == {"", "malformed evidence payload"}

\* f"Processing error: {str(e)}", as the sequence of its two parts
ProcessingError(text) == <<"Processing error: ", text>>

\* variant: the except clause forgets to flag the record for review
worker_error_result_unflagged(provider_info, text) ==
  [original_data |-> provider_info,
   error |-> text,
   confidence_score |-> 0,
   path |-> "ERROR",
   requires_human_review |-> FALSE,
   review_reason |-> ProcessingError(text)]

\* the result the batch worker puts on the queue from its except clause
worker_error_result(provider_info, text) ==
  [original_data |-> provider_info,
   error |-> text,
   confidence_score |-> 0,
   path |-> "ERROR",
   requires_human_review |-> TRUE,
   review_reason |-> ProcessingError(text)]

\* the body validate_single_provider returns from its except clause
single_error_response(provider_data, text) ==
  [status |-> "error",
   error |-> text,
   data |-> [original_data |-> provider_data,
             confidence_score |-> 0,
             path |-> "ERROR",
             requires_human_review |-> TRUE,
             review_reason |-> ProcessingError(text)]]

\* ------------------------------------------------------------------------
\* Inputs
\* ------------------------------------------------------------------------
NpiOf == <<"1000000001", "1000000002", "1000000003", "1000000004",
           "1000000005", "1000000006", "1000000007", "1000000008">>

\* the i-th row of an uploaded file: a complete, recently updated record
ProviderRecord(i) ==
  [full_name |-> "Jane Doe", NPI |-> NpiOf[i], address |-> "1 Main St",
   city |-> "Springfield", state |-> "CA", zip_code |-> "90001",
   website |-> "janedoe.example", specialty |-> "Cardiology",
   phone |-> "555-0100", license_number |-> "A-100",
   last_updated |-> "2026-10-01"]

\* a sparse record under the variant field names, without a last-updated date
SparseProvider ==
  [fullName |-> "Jane Doe", npi |-> NpiOf[1], address |-> "1 Main St", state |-> "CA"]

\* a complete record whose own fields disagree with the sources
ConflictingProvider ==
  [ProviderRecord(1) EXCEPT !["full_name"] = "John Roe",
                            !["address"] = "9 Elm Ave",
                            !["license_number"] = "B-200",
                            !["last_updated"] = "2025-11-01"]

SingleProviders == {ProviderRecord(1), SparseProvider, ConflictingProvider, EmptyDict}

\* what one source can produce for one record: a payload, a failure or a
\* timeout
Responses(s) ==
  {[status |-> "ok", payload |-> p] : p \in Payloads[s]}
    \cup {[status |-> st, payload |-> EmptyDict] : st \in CollectorStatuses \ {"ok"}}

BestPayload(s) ==
  CASE s = "nppes" -> [result_count |-> 1, match_confidence |-> 1000,
                       full_name |-> "JANE  DOE", address |-> "1 MAIN STREET"]
    [] s = "oig_leie" -> [is_excluded |-> FALSE]
    [] s = "state_board" -> [status |-> "Active", license_number |-> "A-100"]
    [] s = "address" -> [is_medical_facility |-> TRUE, address |-> "1 Main St"]
    [] OTHER -> [digital_footprint_score |-> 1000]

AllOk == [s \in SourceSet |-> [status |-> "ok", payload |-> BestPayload(s)]]

\* the answers of the five sources to a record of a batch
BatchResponses ==
  { AllOk,
    [AllOk EXCEPT !["oig_leie"].payload = [is_excluded |-> TRUE]],
    [AllOk EXCEPT !["web_enrichment"] = [status |-> "timeout", payload |-> EmptyDict]],
    [AllOk EXCEPT !["nppes"].payload =
                     [result_count |-> 1, match_confidence |-> 1000,
                      full_name |-> MALFORMED, address |-> "1 Main St"]] }

\* the answers of the sources and the exception text of a faulting run, for
\* one row of a batch
BatchAnswers == [responses : BatchResponses, text : ErrorTexts]

\* an uploaded file: its format, its rows, and whether it can be read
Files ==
  {[kind |-> "csv", rows |-> [i \in 1..n |-> ProviderRecord(i)], readable |-> TRUE] :
     n \in 0..MaxRecords}
    \cup {[kind |-> "csv", rows |-> <<>>, readable |-> FALSE],
          [kind |-> "pdf", rows |-> <<ProviderRecord(1)>>, readable |-> TRUE],
          [kind |-> "pdf", rows |-> <<>>, readable |-> FALSE],
          [kind |-> "other", rows |-> <<>>, readable |-> TRUE]}

\* a file one row longer than the worker pool; its first row is a record
\* whose registry entry is malformed, the others are copies of one record
ExtraRecords == 1
PoolFile ==
  [kind |-> "csv",
   rows |-> [i \in 1..(MAX_CONCURRENT_WORKERS + ExtraRecords) |->
               IF i = 1 THEN ProviderRecord(1) ELSE ProviderRecord(2)],
   readable |-> TRUE]

Log(content) == [type |-> "log", content |-> content]
Result(data) == [type |-> "result", data |-> data]
Close == [type |-> "close", content |-> "Stream closed."]

\* ------------------------------------------------------------------------
\* State
\* ------------------------------------------------------------------------
VARIABLES
  endpoint,        \* the request being served
  provider_data,   \* validate_single_provider: the request body
  spc,             \* validate_single_provider: position in the handler
  ostate,          \* the orchestrator state of the pipeline run
  pending,         \* the sources whose collector call has not returned
  agent_state,     \* the agent state of the pipeline run
  response,        \* validate_single_provider: the returned body
  file,            \* validate_file: the uploaded file
  source_answers,  \* validate_file: what the sources may answer, row by row
  gpc,             \* validate_file: position of file_processor_stream
  provider_list,   \* validate_file: the parsed rows
  total_records,   \* validate_file: len(provider_list)
  wpc,             \* validate_file: position of each bounded_worker task
  faulted,         \* validate_file: the rows whose pipeline run raised
  semaphore,       \* validate_file: free slots of the semaphore
  result_queue,    \* validate_file: the asyncio queue
  completed,       \* validate_file: results yielded by the result loop
  stream,          \* validate_file: the events yielded so far
  aiParsedResult,  \* apply_provider: the submitted validation result
  applications     \* apply_provider: the stored applications

vars == <<endpoint, provider_data, spc, ostate, pending, agent_state, response,
          file, source_answers, gpc, provider_list, total_records, wpc, faulted,
          semaphore, result_queue, completed, stream, aiParsedResult,
          applications>>

apply_vars == <<aiParsedResult, applications>>
single_vars == <<provider_data, spc, ostate, pending, agent_state, response>>
file_vars == <<file, source_answers, gpc, provider_list, total_records, wpc, faulted,
               semaphore, result_queue, completed, stream>>

NoFile == [kind |-> "none", rows |-> <<>>, readable |-> FALSE]
\* no application has been submitted
NoApplication == [decodes |-> FALSE, value |-> EmptyDict]
IdleApply ==
  /\ aiParsedResult = NoApplication
  /\ applications = <<>>

IdleSingle ==
  /\ provider_data = EmptyDict
  /\ spc = "idle"
  /\ ostate = "idle"
  /\ pending = {}
  /\ agent_state = EmptyDict
  /\ response = EmptyDict

IdleFile ==
  /\ file = NoFile
  /\ source_answers = <<>>
  /\ gpc = "idle"
  /\ provider_list = <<>>
  /\ total_records = 0
  /\ wpc = <<>>
  /\ faulted = {}
  /\ semaphore = 0
  /\ result_queue = <<>>
  /\ completed = 0
  /\ stream = <<>>

InitSingle ==
  /\ endpoint = "validate_single"
  /\ provider_data \in SingleProviders
  /\ spc = "start"
  /\ ostate = "idle"
  /\ pending = {}
  /\ agent_state = EmptyDict
  /\ response = EmptyDict
  /\ IdleFile
  /\ IdleApply

InitFile ==
  /\ endpoint = "validate_file"
  /\ file \in Files
  /\ source_answers = [i \in 1..Len(file.rows) |-> BatchAnswers]
  /\ gpc = "start"
  /\ provider_list = <<>>
  /\ total_records = 0
  /\ wpc = <<>>
  /\ faulted = {}
  /\ semaphore = 0
  /\ result_queue = <<>>
  /\ completed = 0
  /\ stream = <<>>
  /\ IdleSingle
  /\ IdleApply

Init == InitSingle \/ InitFile

\* the upload of PoolFile: the registry entry of the first row is malformed,
\* every other lookup succeeds
InitPool ==
  /\ endpoint = "validate_file"
  /\ file = PoolFile
  /\ source_answers =
       [i \in 1..Len(PoolFile.rows) |->
          IF i = 1
          THEN {a \in BatchAnswers :
                  /\ a.responses["nppes"].payload["full_name"] = MALFORMED
                  /\ a.text # ""}
          ELSE {a \in BatchAnswers : a.responses = AllOk /\ a.text = ""}]
  /\ gpc = "start"
  /\ provider_list = <<>>
  /\ total_records = 0
  /\ wpc = <<>>
  /\ faulted = {}
  /\ semaphore = 0
  /\ result_queue = <<>>
  /\ completed = 0
  /\ stream = <<>>
  /\ IdleSingle
  /\ IdleApply

\* ------------------------------------------------------------------------
\* validate_single_provider, with the pipeline run step by step
\* ------------------------------------------------------------------------
\* normalize_provider_data, build initial_state, enter the pipeline
SingleStart ==
  /\ spc = "start"
  /\ spc' = "invoking"
  /\ agent_state' = InitialState(normalize_provider_data(provider_data))
  /\ ostate' = "Normalized"
  /\ UNCHANGED <<endpoint, apply_vars, provider_data, pending, response, file_vars>>

\* Normalized -> Collecting: fan out the five collector calls
BeginCollecting ==
  /\ ostate = "Normalized"
  /\ ostate' = "Collecting"
  /\ pending' = SourceSet
  /\ UNCHANGED <<endpoint, apply_vars, provider_data, spc, agent_state, response, file_vars>>

\* one collector call produces its EvidenceResult
CollectorReturns(s) ==
  /\ ostate = "Collecting"
  /\ s \in pending
  /\ \E r \in Responses(s) : agent_state' = StoreEvidence(agent_state, s, r)
  /\ pending' = pending \ {s}
  /\ UNCHANGED <<endpoint, apply_vars, provider_data, spc, ostate, response, file_vars>>

\* variant: the join does not wait for the collector calls still running
Join_without_waiting ==
  /\ ostate = "Collecting"
  /\ ostate' = "Reconciling"
  /\ UNCHANGED <<endpoint, apply_vars, provider_data, spc, pending, agent_state, response, file_vars>>

\* Collecting -> Reconciling: the join
Join ==
  /\ ostate = "Collecting"
  /\ pending = {}
  /\ ostate' = "Reconciling"
  /\ UNCHANGED <<endpoint, apply_vars, provider_data, spc, pending, agent_state, response, file_vars>>

\* variant: a payload that cannot be normalized sends the run back to
\* Collecting to fetch the evidence again
ReconcileStep_recollecting ==
  /\ ostate = "Reconciling"
  /\ IF ReconcilingFaults(agent_state.initial_data, EvidenceOf(agent_state))
     THEN /\ ostate' = "Collecting"
          /\ pending' = SourceSet
          /\ UNCHANGED agent_state
     ELSE /\ agent_state' = Reconcile(agent_state)
          /\ ostate' = "Scoring"
          /\ UNCHANGED pending
  /\ UNCHANGED <<endpoint, apply_vars, provider_data, spc, response, file_vars>>

\* Reconciling -> Scoring, or an InternalFault that validate_single_provider
\* catches and turns into its error body
ReconcileStep ==
  /\ ostate = "Reconciling"
  /\ IF ReconcilingFaults(agent_state.initial_data, EvidenceOf(agent_state))
     THEN /\ \E text \in ErrorTexts :
               response' = single_error_response(provider_data, text)
          /\ spc' = "returned"
          /\ ostate' = "Faulted"
          /\ UNCHANGED agent_state
     ELSE /\ agent_state' = Reconcile(agent_state)
          /\ ostate' = "Scoring"
          /\ UNCHANGED <<spc, response>>
  /\ UNCHANGED <<endpoint, apply_vars, provider_data, pending, file_vars>>

\* Scoring -> Finalized
ScoreStep ==
  /\ ostate = "Scoring"
  /\ agent_state' = Finalize(Score(agent_state))
  /\ ostate' = "Finalized"
  /\ UNCHANGED <<endpoint, apply_vars, provider_data, spc, pending, response, file_vars>>

\* invoke has returned: format the result and return the success body
SingleReturn ==
  /\ spc = "invoking"
  /\ ostate = "Finalized"
  /\ response' = [status |-> "success",
                  data |-> format_result_for_frontend(agent_state, provider_data)]
  /\ spc' = "returned"
  /\ UNCHANGED <<endpoint, apply_vars, provider_data, ostate, pending, agent_state, file_vars>>

\* ------------------------------------------------------------------------
\* validate_file: file_processor_stream and its workers
\* ------------------------------------------------------------------------
Workers == 1..total_records
AllTasksDone == \A i \in Workers : wpc[i] = "done"

\* dispatch on the file name
OpenFile ==
  /\ gpc = "start"
  /\ CASE file.kind = "csv" ->
            /\ stream' = Append(stream, Log("Reading CSV file..."))
            /\ gpc' = "read_csv"
       [] file.kind = "pdf" ->
            /\ stream' = Append(stream, Log("Parsing PDF with Vision AI..."))
            /\ gpc' = "parse_pdf"
       [] OTHER ->
            /\ stream' = Append(stream, Log("Unsupported file format"))
            /\ gpc' = "finally"
  /\ UNCHANGED <<endpoint, apply_vars, single_vars, file, source_answers, provider_list, total_records,
                 wpc, faulted, semaphore, result_queue, completed>>

\* pd.read_csv: the rows, or an exception caught by the outer except
ReadCsv ==
  /\ gpc = "read_csv"
  /\ IF file.readable
     THEN /\ provider_list' = file.rows
          /\ gpc' = "count"
          /\ UNCHANGED stream
     ELSE /\ stream' = Append(stream, Log("Critical error"))
          /\ gpc' = "finally"
          /\ UNCHANGED provider_list
  /\ UNCHANGED <<endpoint, apply_vars, single_vars, file, source_answers, total_records, wpc, faulted,
                 semaphore, result_queue, completed>>

\* parse_provider_pdf: the rows, or a first element that carries an error
ParsePdf ==
  /\ gpc = "parse_pdf"
  /\ IF file.readable
     THEN /\ provider_list' = file.rows
          /\ UNCHANGED stream
     ELSE /\ stream' = Append(stream, Log("PDF Error"))
          /\ provider_list' = <<>>
  /\ gpc' = "count"
  /\ UNCHANGED <<endpoint, apply_vars, single_vars, file, source_answers, total_records, wpc, faulted,
                 semaphore, result_queue, completed>>

\* total_records, the early return on an empty file, and the creation of
\* the semaphore and of one bounded_worker task per row
CountRecords ==
  /\ gpc = "count"
  /\ total_records' = Len(provider_list)
  /\ IF Len(provider_list) = 0
     THEN /\ stream' = Append(stream, Log("No records found in file"))
          /\ gpc' = "finally"
          /\ UNCHANGED <<wpc, semaphore>>
     ELSE /\ stream' = Append(stream, Log("Found records. Processing..."))
          /\ wpc' = [i \in 1..Len(provider_list) |-> "created"]
          /\ semaphore' = MAX_CONCURRENT_WORKERS
          /\ gpc' = "loop"
  /\ UNCHANGED <<endpoint, apply_vars, single_vars, file, source_answers, provider_list,
                 faulted, result_queue, completed>>

\* variant: the except clause logs the error but queues no result
worker_puts_log_only(provider_info, responses, text) ==
  LET initial_state == InitialState(normalize_provider_data(provider_info))
  IN IF Faults(initial_state, responses)
     THEN <<Log("Error processing record")>>
     ELSE <<Log("PATH"),
            Result(format_result_for_frontend(invoke(initial_state, responses),
                                              provider_info))>>

\* the entries a worker puts on the queue after `await asyncio.to_thread(invoke)`:
\* the completion log and the formatted result, or, from the except clause,
\* the error log and the ERROR result
worker_puts(provider_info, responses, text) ==
  LET initial_state == InitialState(normalize_provider_data(provider_info))
  IN IF Faults(initial_state, responses)
     THEN <<Log("Error processing record"),
            Result(worker_error_result(provider_info, text))>>
     ELSE <<Log("PATH"),
            Result(format_result_for_frontend(invoke(initial_state, responses),
                                              provider_info))>>

\* variant: the exception escapes the worker and the remaining tasks are
\* cancelled
tasks_after_cancelling(tasks, i, raised) ==
  IF raised THEN [j \in DOMAIN tasks |-> "done"] ELSE [tasks EXCEPT ![i] = "done"]

\* the task states once worker i has left its try/except: the except clause
\* swallows the exception, so only task i finishes
tasks_after(tasks, i, raised) == [tasks EXCEPT ![i] = "done"]

\* variant: the slot is released on the normal path only
released_on_success(sem, raised) == IF raised THEN sem ELSE sem + 1

\* `async with semaphore`: leaving the block releases the slot, on the normal
\* and on the exceptional path alike
released(sem, raised) == sem + 1

\* bounded_worker acquires a slot, worker logs the record and hands the
\* pipeline run to a thread.  The tasks were created in row order and the
\* event loop first runs them in that order; the semaphore wakes its waiters
\* in the order they arrived.
WorkerStart(i) ==
  /\ gpc \in {"loop", "gather"}
  /\ i \in Workers
  /\ wpc[i] = "created"
  /\ \A j \in 1..(i - 1) : wpc[j] # "created"
  /\ semaphore > 0
  /\ semaphore' = semaphore - 1
  /\ result_queue' = Append(result_queue, Log("Processing"))
  /\ wpc' = [wpc EXCEPT ![i] = "invoking"]
  /\ UNCHANGED <<endpoint, apply_vars, single_vars, file, source_answers, gpc, provider_list,
                 total_records, faulted, completed, stream>>

\* the pipeline run of worker i returns or raises; the worker queues its
\* result and leaves the semaphore block
WorkerReturn(i) ==
  /\ gpc \in {"loop", "gather"}
  /\ i \in Workers
  /\ wpc[i] = "invoking"
  /\ \E a \in source_answers[i] :
       LET raised == Faults(InitialState(normalize_provider_data(provider_list[i])),
                            a.responses)
       IN /\ raised \/ a.text = ""
          /\ result_queue' = result_queue \o worker_puts(provider_list[i], a.responses, a.text)
          /\ wpc' = tasks_after(wpc, i, raised)
          /\ semaphore' = released(semaphore, raised)
          /\ faulted' = IF raised THEN faulted \cup {i} ELSE faulted
  /\ UNCHANGED <<endpoint, apply_vars, single_vars, file, source_answers, gpc, provider_list,
                 total_records, completed, stream>>

\* the result loop reads one queue entry and yields it
QueueGet ==
  /\ gpc = "loop"
  /\ completed < total_records
  /\ result_queue # <<>>
  /\ stream' = Append(stream, Head(result_queue))
  /\ result_queue' = Tail(result_queue)
  /\ completed' = IF Head(result_queue).type = "result" THEN completed + 1 ELSE completed
  /\ UNCHANGED <<endpoint, apply_vars, single_vars, file, source_answers, gpc, provider_list,
                 total_records, wpc, faulted, semaphore>>

\* variant: the loop is left as soon as any task is done
QueueTimeout_any_task_done ==
  /\ gpc = "loop"
  /\ completed < total_records
  /\ result_queue = <<>>
  /\ gpc' = IF \E i \in Workers : wpc[i] = "done" THEN "gather" ELSE "loop"
  /\ UNCHANGED <<endpoint, apply_vars, single_vars, file, source_answers, provider_list, total_records,
                 wpc, faulted, semaphore, result_queue, completed, stream>>

\* the queue stayed empty for two seconds: leave the loop if every task is
\* done, else wait again
QueueTimeout ==
  /\ gpc = "loop"
  /\ completed < total_records
  /\ result_queue = <<>>
  /\ gpc' = IF AllTasksDone THEN "gather" ELSE "loop"
  /\ UNCHANGED <<endpoint, apply_vars, single_vars, file, source_answers, provider_list, total_records,
                 wpc, faulted, semaphore, result_queue, completed, stream>>

\* out of the loop: await the tasks, yield what is left on the queue, then the
\* completion log
GatherAndDrain ==
  /\ \/ gpc = "loop" /\ completed >= total_records
     \/ gpc = "gather"
  /\ AllTasksDone
  /\ stream' = (stream \o result_queue) \o <<Log("Complete! records validated.")>>
  /\ result_queue' = <<>>
  /\ gpc' = "finally"
  /\ UNCHANGED <<endpoint, apply_vars, single_vars, file, source_answers, provider_list, total_records,
                 wpc, faulted, semaphore, completed>>

\* variant: the close event is yielded at the end of the try body, so the
\* early returns and the except clause end the stream without it
Finally_close_in_try_body ==
  /\ gpc = "finally"
  /\ stream' = IF stream[Len(stream)] = Log("Complete! records validated.")
               THEN Append(stream, Close) ELSE stream
  /\ gpc' = "closed"
  /\ UNCHANGED <<endpoint, apply_vars, single_vars, file, source_answers, provider_list, total_records,
                 wpc, faulted, semaphore, result_queue, completed>>

\* the finally clause: the close event
Finally ==
  /\ gpc = "finally"
  /\ stream' = Append(stream, Close)
  /\ gpc' = "closed"
  /\ UNCHANGED <<endpoint, apply_vars, single_vars, file, source_answers, provider_list, total_records,
                 wpc, faulted, semaphore, result_queue, completed>>

Next ==
  \/ SingleStart
  \/ BeginCollecting
  \/ \E s \in SourceSet : CollectorReturns(s)
  \/ Join
  \/ ReconcileStep
  \/ ScoreStep
  \/ SingleReturn
  \/ OpenFile
  \/ ReadCsv
  \/ ParsePdf
  \/ CountRecords
  \/ \E i \in 1..total_records : WorkerStart(i)
  \/ \E i \in 1..total_records : WorkerReturn(i)
  \/ QueueGet
  \/ QueueTimeout
  \/ GatherAndDrain
  \/ Finally

Spec == Init /\ [][Next]_vars

\* the steps of a CSV upload
NextPool ==
  \/ OpenFile
  \/ ReadCsv
  \/ CountRecords
  \/ \E i \in 1..total_records : WorkerStart(i)
  \/ \E i \in 1..total_records : WorkerReturn(i)
  \/ QueueGet
  \/ QueueTimeout
  \/ GatherAndDrain
  \/ Finally

\* the batch of PoolFile
SpecPool == InitPool /\ [][NextPool]_vars

\* the steps of a file upload
NextFile ==
  \/ OpenFile
  \/ ReadCsv
  \/ ParsePdf
  \/ CountRecords
  \/ \E i \in 1..total_records : WorkerStart(i)
  \/ \E i \in 1..total_records : WorkerReturn(i)
  \/ QueueGet
  \/ QueueTimeout
  \/ GatherAndDrain
  \/ Finally

\* the event loop keeps running the generator and every task that can go
\* on, the timer of wait_for fires, and every pipeline invocation
\* eventually returns or raises
FairUpload ==
  /\ WF_vars(OpenFile) /\ WF_vars(ReadCsv) /\ WF_vars(ParsePdf)
  /\ WF_vars(CountRecords)
  /\ \A i \in 1..MaxRecords : WF_vars(WorkerStart(i))
  /\ \A i \in 1..MaxRecords : WF_vars(WorkerReturn(i))
  /\ WF_vars(QueueGet) /\ WF_vars(QueueTimeout)
  /\ WF_vars(GatherAndDrain) /\ WF_vars(Finally)

\* a file upload under fair scheduling
SpecUpload == InitFile /\ [][NextFile]_vars /\ FairUpload

\* ------------------------------------------------------------------------
\* The Scoring Engine on its own: the score of one breakdown after another
\* ------------------------------------------------------------------------
\* the dimension values in [0,1] that the scoring runs use
GridValues == {(k * ONE) \div GridSteps : k \in 0..GridSteps}
Breakdowns == [DimensionKeys -> GridValues]

\* the agent state in Scoring with this breakdown and its score
Scored(state, breakdown) ==
  [state EXCEPT !["confidence_breakdown"] = breakdown,
                !["confidence_score"] = ConfidenceScore(breakdown)]

InitScoring ==
  /\ endpoint = "scoring"
  /\ provider_data = EmptyDict
  /\ spc = "idle"
  /\ ostate = "Scoring"
  /\ pending = {}
  /\ \E b \in Breakdowns :
       agent_state = Scored(InitialState(normalize_provider_data(EmptyDict)), b)
  /\ response = EmptyDict
  /\ IdleFile
  /\ IdleApply

\* the Scoring Engine scores the breakdown that differs from the last one
\* in dimension d, which now has the greater value v
RaiseDimension(d, v) ==
  /\ endpoint = "scoring"
  /\ v > agent_state.confidence_breakdown[d]
  /\ agent_state' =
       Scored(agent_state, [agent_state.confidence_breakdown EXCEPT ![d] = v])
  /\ ostate' = "Rescored"
  /\ UNCHANGED <<endpoint, apply_vars, provider_data, spc, pending, response, file_vars>>

NextScoring == \E d \in DimensionKeys : \E v \in GridValues : RaiseDimension(d, v)

SpecScoring == InitScoring /\ [][NextScoring]_vars

\* ------------------------------------------------------------------------
\* normalize_provider_data on its own: request bodies of
\* validate_single_provider with keys missing and with null values
\* ------------------------------------------------------------------------
\* the variant name that normalize_provider_data also reads for a field
VariantKey ==
  [f \in {"full_name", "NPI", "zip_code", "license_number", "last_updated"} |->
     CASE f = "full_name" -> "fullName"
       [] f = "NPI" -> "npi"
       [] f = "zip_code" -> "zipCode"
       [] f = "license_number" -> "license"
       [] OTHER -> "lastUpdated"]

\* the keys whose presence and value vary in the request bodies: one field
\* with a variant name, one without, and the last-updated date
VariedKeys == {"full_name", "fullName", "address", "last_updated", "lastUpdated"}
\* a JSON value of a key: null, the empty string, or a text
InputValues == {None, "", "Jane Doe", "2026-10-01"}

\* the request bodies: any subset of the varied keys with any values, the
\* other keys absent
NormalizeInputs ==
  UNION {[ks -> InputValues] : ks \in SUBSET VariedKeys}

InitNormalize ==
  /\ endpoint = "validate_single"
  /\ provider_data \in NormalizeInputs
  /\ spc = "start"
  /\ ostate = "idle"
  /\ pending = {}
  /\ agent_state = EmptyDict
  /\ response = EmptyDict
  /\ IdleFile
  /\ IdleApply

SpecNormalize == InitNormalize /\ [][SingleStart]_vars

\* ------------------------------------------------------------------------
\* format_result_for_frontend on its own: the pipeline outputs that
\* validate_single_provider may have to format
\* ------------------------------------------------------------------------
\* every combination of answers of the five sources
AllResponses ==
  {r \in [SourceSet -> UNION {Responses(s) : s \in SourceSet}] :
     \A s \in SourceSet : r[s] \in Responses(s)}

\* a pipeline output that carries no quality_metrics key
WithoutQualityMetrics(final_result) ==
  [k \in DOMAIN final_result \ {"quality_metrics"} |-> final_result[k]]

\* a pipeline output whose quality_metrics is still the empty dict of the
\* initial state
WithEmptyQualityMetrics(final_result) ==
  [final_result EXCEPT !["quality_metrics"] = EmptyDict]

FormatProviders == {ProviderRecord(1), SparseProvider}

\* the handler is inside invoke: the evidence is collected and the pure
\* stages are still to run, or invoke is about to return an output without
\* quality metrics
InitFormat ==
  /\ endpoint = "validate_single"
  /\ provider_data \in FormatProviders
  /\ spc = "invoking"
  /\ pending = {}
  /\ response = EmptyDict
  /\ IdleFile
  /\ IdleApply
  /\ \E r \in AllResponses :
       LET initial_state == InitialState(normalize_provider_data(provider_data))
       IN \/ /\ ostate = "Reconciling"
             /\ agent_state = Collect(initial_state, r, SourceSet)
          \/ /\ ~Faults(initial_state, r)
             /\ ostate = "Finalized"
             /\ agent_state \in {WithoutQualityMetrics(invoke(initial_state, r)),
                                  WithEmptyQualityMetrics(invoke(initial_state, r))}

NextFormat == ReconcileStep \/ ScoreStep \/ SingleReturn

SpecFormat == InitFormat /\ [][NextFormat]_vars

\* ------------------------------------------------------------------------
\* apply_provider: a provider application with its validation result
\* ------------------------------------------------------------------------
\* the score thresholds 0.7 and 0.4 of apply_provider
APPROVE_SCORE == 70000
PENDING_SCORE == 40000

\* variant: the review flag of the validation result is not consulted
application_status_ignoring_review(confidence_score, path, requires_review) ==
  IF path = "GREEN" /\ confidence_score >= APPROVE_SCORE
  THEN "approved"
  ELSE IF \/ path = "YELLOW"
          \/ confidence_score >= PENDING_SCORE /\ confidence_score < APPROVE_SCORE
  THEN "pending_review"
  ELSE "flagged_for_review"

\* the if/elif/else that sets status
application_status(confidence_score, path, requires_review) ==
  IF path = "GREEN" /\ confidence_score >= APPROVE_SCORE /\ ~requires_review
  THEN "approved"
  ELSE IF \/ path = "YELLOW"
          \/ confidence_score >= PENDING_SCORE /\ confidence_score < APPROVE_SCORE
  THEN "pending_review"
  ELSE "flagged_for_review"

\* the validation results a client may submit: any of the three keys may be
\* missing; the scores lie on both sides of the two thresholds
SubmittedKeys == {"confidence_score", "path", "requires_human_review"}
SubmittedScores ==
  {0, PENDING_SCORE - 1, PENDING_SCORE, APPROVE_SCORE - 1, APPROVE_SCORE, SCORE_ONE}
SubmittedPaths == {"GREEN", "YELLOW", "RED", "ERROR", "UNKNOWN"}
SubmittedResults ==
  {[k \in ks |-> r[k]] :
     r \in [confidence_score : SubmittedScores, path : SubmittedPaths,
            requires_human_review : BOOLEAN],
     ks \in SUBSET SubmittedKeys}

InitApply ==
  /\ endpoint = "apply_provider"
  /\ provider_data = EmptyDict
  /\ spc = "start"
  /\ ostate = "idle"
  /\ pending = {}
  /\ agent_state = EmptyDict
  /\ response = EmptyDict
  /\ IdleFile
  /\ aiParsedResult \in
       {[decodes |-> TRUE, value |-> v] : v \in SubmittedResults}
         \cup {[decodes |-> FALSE, value |-> EmptyDict]}
  /\ applications = <<>>

\* the handler: decode the validation result, set the status, store the
\* application and return; an exception on the way gives the failure body
apply_provider ==
  /\ endpoint = "apply_provider"
  /\ spc = "start"
  /\ LET ai_parsed == IF aiParsedResult.decodes THEN aiParsedResult.value
                       ELSE [parsed_data |-> "aiParsedResult"]
         confidence_score == Get(ai_parsed, "confidence_score", 0)
         path == Get(ai_parsed, "path", "UNKNOWN")
         requires_review == Get(ai_parsed, "requires_human_review", FALSE)
         status == application_status(confidence_score, path, requires_review)
         ai_validation == [confidence_score |-> confidence_score, path |-> path,
                           requires_review |-> requires_review]
     IN \E saved \in BOOLEAN :
          IF saved
          THEN /\ applications' =
                    Append(applications,
                           [status |-> status, ai_validation |-> ai_validation])
               /\ response' = [success |-> TRUE, status |-> status,
                               validation_summary |-> ai_validation]
          ELSE /\ applications' = applications
               /\ response' = [success |-> FALSE,
                               message |-> "Failed to save application"]
  /\ spc' = "returned"
  /\ UNCHANGED <<endpoint, provider_data, ostate, pending, agent_state, file_vars,
                 aiParsedResult>>

SpecApply == InitApply /\ [][apply_provider]_vars

\* ------------------------------------------------------------------------
\* Properties
\* ------------------------------------------------------------------------
\* a text is empty when all of its parts are
IsEmptyText(t) == \A k \in 1..Len(t) : t[k] = ""

IsErrorResult(d) ==
  /\ d.path = "ERROR"
  /\ d.requires_human_review = TRUE
  /\ d.confidence_score = 0
  /\ ~IsEmptyText(d.review_reason)

\* the positions of the result events for row i in a sequence of events
ResultsFor(events, i) ==
  {k \in 1..Len(events) :
     /\ events[k].type = "result"
     /\ events[k].data.original_data = provider_list[i]}

ResultEvents(events) == {k \in 1..Len(events) : events[k].type = "result"}

CompleteLog == Log("Complete! records validated.")
CompletePositions == {k \in 1..Len(stream) : stream[k] = CompleteLog}

\* C1: when the pipeline run of a record raises, the caller gets a structured
\* result instead of the exception: validate_single_provider returns, and the
\* batch worker queues (and the stream later yields), a result with path
\* ERROR, requires_human_review true, confidence_score 0 and a non-empty
\* review_reason; the worker's task ends normally.
C1_ErrorBecomesResult ==
  /\ ostate = "Faulted" =>
       /\ spc = "returned"
       /\ response.status = "error"
       /\ IsErrorResult(response.data)
  /\ \A i \in faulted :
       /\ wpc[i] = "done"
       /\ \E k \in ResultsFor(stream \o result_queue, i) :
            IsErrorResult((stream \o result_queue)[k].data)
       /\ gpc = "closed" =>
            \E k \in ResultsFor(stream, i) : IsErrorResult(stream[k].data)

C1_Witness ==
  /\ gpc = "closed"
  /\ \E i \in faulted : \E k \in ResultsFor(stream, i) :
       stream[k].data.review_reason = ProcessingError("")

\* C2: in a batch, the failure of one record never aborts the others: every
\* other record that has finished has its own result, and when the stream
\* ends every other record's result has been emitted, an ERROR result only
\* if that record failed itself.
C2_FailureDoesNotAbortOthers ==
  \A i \in faulted : \A j \in Workers \ {i} :
    /\ wpc[j] = "done" => ResultsFor(stream \o result_queue, j) # {}
    /\ gpc \in {"finally", "closed"} =>
         /\ ResultsFor(stream, j) # {}
         /\ \A k \in ResultsFor(stream, j) :
              stream[k].data.path = "ERROR" <=> j \in faulted

C2_Witness ==
  /\ gpc = "closed"
  /\ \E i \in faulted : \E j \in Workers \ faulted : \E k \in ResultsFor(stream, j) :
       /\ i < j
       /\ stream[k].data.path = "GREEN"

\* C3: for a batch of N >= 1 records the stream carries at most one result
\* event per record and never more than N, and once the final "Complete!"
\* log is emitted exactly one result event for each of the N records
\* precedes it and none follows.
C3_OneResultPerRecord ==
  /\ \A i \in Workers : Cardinality(ResultsFor(stream, i)) <= 1
  /\ Cardinality(ResultEvents(stream)) <= total_records
  /\ \A c \in CompletePositions :
       /\ \A i \in Workers :
            /\ Cardinality(ResultsFor(stream, i)) = 1
            /\ \A k \in ResultsFor(stream, i) : k < c
       /\ Cardinality(ResultEvents(stream)) = total_records

C3_Witness ==
  /\ CompletePositions # {}
  /\ total_records >= 2
  /\ faulted # {}
  /\ Cardinality(ResultEvents(stream)) = total_records

\* the records that are inside the pipeline invocation
InPipeline == {i \in Workers : wpc[i] = "invoking"}

\* C4: at every moment of a batch at most MAX_CONCURRENT_WORKERS records are
\* inside the pipeline invocation, and the slots are conserved whether
\* workers succeed or fail: the free slots and the records in the pipeline
\* always add up to MAX_CONCURRENT_WORKERS, so a waiting record can proceed
\* whenever fewer than that many records are in the pipeline.
C4_BoundedConcurrency ==
  /\ Cardinality(InPipeline) <= MAX_CONCURRENT_WORKERS
  /\ wpc # <<>> => semaphore + Cardinality(InPipeline) = MAX_CONCURRENT_WORKERS

C4_Witness ==
  /\ 1 \in faulted
  /\ Cardinality(InPipeline) = MAX_CONCURRENT_WORKERS
  /\ wpc[MAX_CONCURRENT_WORKERS + 1] = "invoking"

\* the results handed to the caller so far, by either entry point
Delivered ==
  {stream[k].data : k \in ResultEvents(stream)}
    \cup (IF spc = "returned" THEN {response.data} ELSE {})

\* the delivered results that format_result_for_frontend built
Formatted == {r \in Delivered : "verification_status" \in DOMAIN r}

\* C5: an exclusion-list hit implies path RED and requires_human_review true
\* in the delivered result, whatever the other dimension scores are.
C5_ExclusionForcesRed ==
  \A r \in Formatted :
    ~r.verification_status.oig_clear =>
      r.path = "RED" /\ r.requires_human_review = TRUE

C5_Witness ==
  \E r \in Formatted :
    /\ ~r.verification_status.oig_clear
    /\ \A d \in PositiveDimensions : r.quality_metrics.score_breakdown[d] = ONE
    /\ r.path = "RED"

\* the weighted sum of a score breakdown under the weights the
\* confidence-breakdown endpoint reports, the risk dimension subtracted
ReportedWeightedSum(score_breakdown) ==
  LET ds == dimensions(score_breakdown)
  IN SumSeq([i \in 1..Len(ds) |->
               IF ds[i].key = "risk" THEN 0 - ds[i].weight * score_breakdown["risk"]
               ELSE ds[i].weight * score_breakdown[ds[i].key]])

\* C6: every delivered confidence_score lies in [0,1] and equals the weighted
\* sum of the five positive dimensions minus the weighted risk, clamped to
\* [0,1]; the six weights, as the confidence-breakdown endpoint reports them
\* (35/20/15/15/10/5), sum to 1.0.
C6_ScoreIsClampedWeightedSum ==
  /\ \A r \in Delivered : r.confidence_score \in 0..SCORE_ONE
  /\ \A r \in Formatted :
       /\ \A d \in DimensionKeys : r.quality_metrics.score_breakdown[d] \in 0..ONE
       /\ r.confidence_score =
            Max(0, Min(SCORE_ONE, ReportedWeightedSum(r.quality_metrics.score_breakdown)))
       /\ LET ds == dimensions(r.quality_metrics.score_breakdown)
          IN SumSeq([i \in 1..Len(ds) |-> ds[i].weight]) = 100

C6_Witness ==
  \E r \in Formatted :
    /\ ReportedWeightedSum(r.quality_metrics.score_breakdown) < 0
    /\ r.confidence_score = 0

\* C7: tier and path of a delivered result are the fixed table applied to its
\* confidence_score and its fraud and exclusion indicators: PLATINUM when the
\* score is at least 0.85 with no high-severity fraud indicator, else GOLD
\* when it is at least 0.60, else QUESTIONABLE; RED when the tier is
\* QUESTIONABLE or the exclusion list hit, else GREEN for PLATINUM without
\* fraud indicators, else YELLOW.
C7_TierAndPathTable ==
  \A r \in Formatted :
    LET highSeverity == {k \in 1..Len(r.fraud_indicators) :
                           r.fraud_indicators[k].severity >= HIGH_SEVERITY}
        tier == r.quality_metrics.confidence_tier
    IN /\ tier = "PLATINUM" <=>
            (r.confidence_score >= 85000 /\ highSeverity = {})
       /\ tier = "GOLD" <=>
            (~(r.confidence_score >= 85000 /\ highSeverity = {})
               /\ r.confidence_score >= 60000)
       /\ tier = "QUESTIONABLE" <=> r.confidence_score < 60000
       /\ r.path = "RED" <=>
            (tier = "QUESTIONABLE" \/ ~r.verification_status.oig_clear)
       /\ r.path = "GREEN" <=>
            (tier = "PLATINUM" /\ r.fraud_indicators = <<>>
               /\ r.verification_status.oig_clear)
       /\ r.path = "YELLOW" <=>
            (r.verification_status.oig_clear
               /\ (tier = "GOLD" \/ (tier = "PLATINUM" /\ r.fraud_indicators # <<>>)))

C7_Witness ==
  \E r \in Formatted :
    /\ r.quality_metrics.confidence_tier = "PLATINUM"
    /\ r.fraud_indicators # <<>>
    /\ r.path = "YELLOW"

\* C8: requires_human_review is true when the path is RED, or the path is
\* YELLOW with a confidence_score below 0.5, or the ConflictSet has more than
\* the configured threshold of entries.
C8_ReviewRequired ==
  \A r \in Formatted :
    (\/ r.path = "RED"
     \/ r.path = "YELLOW" /\ r.confidence_score < 50000
     \/ r.quality_metrics.conflict_count > CONFLICT_REVIEW_THRESHOLD)
      => r.requires_human_review = TRUE

C8_Witness ==
  \E r \in Formatted :
    /\ r.path = "YELLOW"
    /\ r.quality_metrics.conflict_count > CONFLICT_REVIEW_THRESHOLD
    /\ r.requires_human_review = TRUE

\* C9: in every delivered result, formatted or ERROR, review_reason is not
\* empty when requires_human_review is true.
C9_ReviewHasReason ==
  \A r \in Delivered :
    r.requires_human_review = TRUE => ~IsEmptyText(r.review_reason)

C9_Witness ==
  /\ \E r \in Formatted : r.requires_human_review = TRUE /\ r.path = "RED"
  /\ \E r \in Delivered \ Formatted : r.review_reason = ProcessingError("")

\* the sources whose evidence a dimension draws on (4.4, 4.5): the risk
\* dimension aggregates fraud indicators over the registry, exclusion-list,
\* license-board and address evidence
DimensionSources(d) ==
  CASE d = "identity" -> {"nppes"}
    [] d = "address" -> {"address"}
    [] d = "enrichment" -> {"web_enrichment"}
    [] d = "risk" -> {"nppes", "oig_leie", "state_board", "address"}
    [] OTHER -> {}

\* the dimension that stands for a source in the breakdown
OwnDimension(s) ==
  CASE s = "nppes" -> "identity"
    [] s = "address" -> "address"
    [] s = "web_enrichment" -> "enrichment"
    [] OTHER -> "risk"

\* a validate_single_provider call whose pipeline run reached Finalized
Finished == spc = "returned" /\ ostate = "Finalized"

FailedSources ==
  {s \in SourceSet : agent_state.execution_metadata[s].status # "ok"}

\* the evidence of the run, had source s answered with payload p
EvidenceHad(s, p) == [EvidenceOf(agent_state) EXCEPT ![s] = p]

\* the payloads of s with which the run would not have faulted
UsablePayloads(s) ==
  {p \in Payloads[s] : ~ReconcilingFaults(agent_state.initial_data, EvidenceHad(s, p))}

\* the score breakdown of the run, had source s answered with payload p
BreakdownHad(s, p) ==
  LET ev == EvidenceHad(s, p)
      conflicts == DetectConflicts(agent_state.initial_data, ev)
  IN ScoreBreakdown(agent_state.initial_data, ev,
                    FraudIndicators(agent_state.initial_data, ev, conflicts))

\* what C10 says of the failed source s apart from the other dimensions: a
\* complete, non-ERROR result in which the evidence of s is the empty default
FailureAbsorbed(s) ==
  /\ response.status = "success"
  /\ response.data.path \in {"GREEN", "YELLOW", "RED"}
  /\ agent_state[EvidenceKey[s]] = EmptyDict
  /\ s \in {"nppes", "address", "web_enrichment"} =>
       response.data.quality_metrics.score_breakdown[OwnDimension(s)] = 0

\* a run faults only on a malformed payload of a source that answered
FaultNeedsMalformedAnswer ==
  ostate = "Faulted" =>
    \E s \in SourceSet \ FailedSources :
      \E f \in DOMAIN agent_state[EvidenceKey[s]] \cap {"full_name", "address", "license_number"} :
        agent_state[EvidenceKey[s]][f] = MALFORMED

Stages == <<"Normalized", "Collecting", "Reconciling", "Scoring", "Finalized">>
StageSet == {Stages[k] : k \in 1..Len(Stages)}
StageRank(stage) == CHOOSE k \in 1..Len(Stages) : Stages[k] = stage

\* C11: in the run for one record the orchestrator state moves only forward
\* through Normalized, Collecting, Reconciling, Scoring, Finalized: a run
\* starts in Normalized, every change of state inside a run goes to the next
\* state of that order (or, from a pure stage, out of the run by an
\* InternalFault), and once Finalized is reached the state, the outstanding
\* calls and the agent state never change again.
C11_StrictlyForward ==
  [][/\ (ostate \notin StageSet /\ ostate' \in StageSet) =>
          (ostate = "idle" /\ ostate' = "Normalized")
     /\ (ostate \in StageSet /\ ostate' # ostate) =>
          \/ /\ ostate' \in StageSet
             /\ StageRank(ostate') = StageRank(ostate) + 1
          \/ /\ ostate' = "Faulted"
             /\ ostate \in {"Reconciling", "Scoring"}
     /\ ostate \in {"Finalized", "Faulted"} =>
          UNCHANGED <<ostate, pending, agent_state>>]_vars

\* a finished run whose result has been returned: a step was taken after
\* Finalized
C11_Witness ==
  /\ ostate = "Finalized"
  /\ spc = "returned"
  /\ response.status = "success"
  /\ DOMAIN agent_state.execution_metadata = SourceSet

\* the sources that have produced their EvidenceResult in this run
Produced == DOMAIN Get(agent_state, "execution_metadata", EmptyDict)

\* C12: Reconciling is entered only after all five collector calls have
\* each produced exactly one result (ok, failed or timeout), under every
\* interleaving of the calls: while Reconciling or any later stage runs no
\* source is pending and all five have a result, during Collecting the
\* sources with a result are exactly those no longer pending, and a result
\* is only ever recorded for a source that was pending and had none.
C12_JoinAfterAllFive ==
  /\ [](/\ ostate \in {"Reconciling", "Scoring", "Finalized", "Faulted"} =>
            /\ pending = {}
            /\ Produced = SourceSet
            /\ \A s \in SourceSet :
                 agent_state.execution_metadata[s].status \in CollectorStatuses
        /\ ostate = "Collecting" =>
            /\ Produced = SourceSet \ pending
            /\ \A s \in SourceSet \ Produced : agent_state[EvidenceKey[s]] = EmptyDict)
  /\ [][\A s \in SourceSet :
          (\/ s \in Produced' \ Produced
           \/ /\ s \in Produced \cap Produced'
              /\ agent_state'.execution_metadata[s] # agent_state.execution_metadata[s]
           \/ /\ ostate' # "idle" /\ ostate # "idle"
              /\ agent_state'[EvidenceKey[s]] # agent_state[EvidenceKey[s]])
          => /\ ostate = "Collecting"
             /\ s \in pending \ pending'
             /\ s \notin Produced]_vars

\* the run reconciles after the license board answered first and the
\* registry last, one call having failed and one having timed out
C12_Witness ==
  /\ ostate = "Scoring"
  /\ pending = {}
  /\ agent_state.execution_metadata["nppes"].status = "failed"
  /\ agent_state.execution_metadata["web_enrichment"].status = "timeout"
  /\ agent_state.execution_metadata["state_board"].status = "ok"

\* the dimensions in which two breakdowns differ
Differing(b1, b2) == {d \in DimensionKeys : b1[d] # b2[d]}

\* C13: raising one of identity, address, completeness, freshness or
\* enrichment while the other five dimensions stay fixed never lowers
\* confidence_score, and raising risk while the others stay fixed never
\* raises it.
C13_ScoreMonotone ==
  [][\A d \in DimensionKeys :
       (/\ Differing(agent_state.confidence_breakdown,
                     agent_state'.confidence_breakdown) = {d}
        /\ agent_state'.confidence_breakdown[d] > agent_state.confidence_breakdown[d])
       => IF d = "risk"
          THEN agent_state'.confidence_score <= agent_state.confidence_score
          ELSE agent_state'.confidence_score >= agent_state.confidence_score]_vars

\* risk has been raised to 1 under a breakdown whose weighted sum is then
\* negative: the score is held at 0
C13_Witness ==
  /\ ostate = "Rescored"
  /\ agent_state.confidence_breakdown["risk"] = ONE
  /\ agent_state.confidence_breakdown["freshness"] > 0
  /\ agent_state.confidence_breakdown["identity"] = 0
  /\ agent_state.confidence_score = 0

\* the normalized record that validate_single_provider hands to the pipeline
Normalized == agent_state.initial_data
FieldSet == {CanonicalFields[k] : k \in 1..Len(CanonicalFields)}
\* a field is absent from a request body when neither its canonical key nor
\* its variant key is there
Absent(f) ==
  /\ f \notin DOMAIN provider_data
  /\ f \in DOMAIN VariantKey => VariantKey[f] \notin DOMAIN provider_data

\* C14: for every input record normalize_provider_data returns all eleven
\* canonical fields, taking the canonical key's value or else the variant's
\* value, giving every absent field the empty string; no field of the
\* normalized record is ever null.
C14_NormalizedNeverNull ==
  ostate = "Normalized" =>
    /\ DOMAIN Normalized = FieldSet
    /\ Len(CanonicalFields) = 11
    /\ \A f \in FieldSet :
         /\ (f \in DOMAIN provider_data /\ Truthy(provider_data[f])) =>
              Normalized[f] = provider_data[f]
         /\ (/\ f \in DOMAIN VariantKey
             /\ f \notin DOMAIN provider_data
             /\ VariantKey[f] \in DOMAIN provider_data) =>
              Normalized[f] = provider_data[VariantKey[f]]
         /\ Absent(f) => Normalized[f] = ""
         /\ Normalized[f] # None

\* the fixed enumerations of the output structure
Tiers == {"PLATINUM", "GOLD", "QUESTIONABLE"}
Paths == {"GREEN", "YELLOW", "RED"}

\* C15 as claimed: every delivered result has confidence_score in [0,1] and
\* either the ERROR path or confidence_tier in {PLATINUM, GOLD, QUESTIONABLE}
\* and path in {GREEN, YELLOW, RED}, also when the pipeline output has
\* missing or empty quality_metrics.
C15_RangesAlways ==
  \A r \in Delivered :
    /\ r.confidence_score \in 0..SCORE_ONE
    /\ \/ r.path = "ERROR"
       \/ /\ r.quality_metrics.confidence_tier \in Tiers
          /\ r.path \in Paths

\* whether the pipeline output being formatted carries a tier and a path
HasTierAndPath(final_result) ==
  {"confidence_tier", "path"} \subseteq DOMAIN Get(final_result, "quality_metrics", EmptyDict)

\* C15, amended: every delivered result has confidence_score in [0,1]; a
\* result for a pipeline output whose quality_metrics carry a tier and a
\* path has confidence_tier in {PLATINUM, GOLD, QUESTIONABLE} and path in
\* {GREEN, YELLOW, RED}; a result for an output with missing or empty
\* quality_metrics has the tier UNKNOWN and the path UNKNOWN; the result of
\* an internal fault has the path ERROR and no tier.
C15_RangesOrUnknown ==
  spc = "returned" =>
    LET r == response.data
    IN /\ r.confidence_score \in 0..SCORE_ONE
       /\ ostate = "Faulted" =>
            r.path = "ERROR" /\ "quality_metrics" \notin DOMAIN r
       /\ (ostate = "Finalized" /\ HasTierAndPath(agent_state)) =>
            /\ r.quality_metrics.confidence_tier \in Tiers
            /\ r.path \in Paths
       /\ (ostate = "Finalized" /\ ~HasTierAndPath(agent_state)) =>
            /\ r.quality_metrics.confidence_tier = "UNKNOWN"
            /\ r.path = "UNKNOWN"

\* a scored run whose output lost its quality_metrics has been formatted
C15_Witness ==
  /\ spc = "returned"
  /\ ostate = "Finalized"
  /\ "quality_metrics" \notin DOMAIN agent_state
  /\ agent_state.confidence_score >= PLATINUM_THRESHOLD
  /\ response.data.path = "UNKNOWN"
  /\ response.data.quality_metrics.confidence_tier = "UNKNOWN"

ClosePositions == {k \in 1..Len(stream) : stream[k].type = "close"}

\* the log that precedes the close event on each exit path of the stream
ExitLogs ==
  {Log("Unsupported file format"), Log("No records found in file"),
   Log("Critical error"), CompleteLog}

\* C16: on every exit path of the validate_file stream (unsupported file
\* format, zero records, PDF parse error, normal completion, critical
\* exception) exactly one close event is emitted and it is the last event:
\* the stream never holds more than one close event nor any event after it,
\* every exit path leads to the finally clause, which can always emit the
\* event, and the ended stream closes right after the log of its exit path.
C16_CloseIsLast ==
  /\ Cardinality(ClosePositions) <= 1
  /\ \A k \in ClosePositions : k = Len(stream)
  /\ gpc = "finally" =>
       /\ ClosePositions = {}
       /\ stream[Len(stream)] \in ExitLogs
       /\ ENABLED Finally
  /\ gpc = "closed" =>
       /\ Cardinality(ClosePositions) = 1
       /\ Len(stream) >= 2
       /\ stream[Len(stream) - 1] \in ExitLogs
       /\ ~ENABLED Next
  /\ (endpoint = "validate_file" /\ gpc \notin {"finally", "closed"}) =>
       ClosePositions = {}

\* the stream of a PDF that could not be parsed
C16_Witness ==
  /\ gpc = "closed"
  /\ stream = <<Log("Parsing PDF with Vision AI..."), Log("PDF Error"),
                Log("No records found in file"), Close>>

\* C17: provided every pipeline invocation eventually returns or raises,
\* the stream of every upload reaches its close event; the result loop is
\* left only when the emitted results number the records or when a
\* queue-read timeout finds the queue empty and all worker tasks done, and
\* the loop does not stay on an empty queue once every worker task is done.
C17_StreamTerminates ==
  /\ (gpc = "start") ~> (gpc = "closed")
  /\ (gpc = "loop" /\ result_queue = <<>> /\ AllTasksDone) ~> (gpc # "loop")
  /\ [][(gpc = "loop" /\ gpc' # "loop") =>
          \/ completed >= total_records
          \/ result_queue = <<>> /\ AllTasksDone]_vars

\* the stream of a full batch, one of whose records failed, has ended
C17_Witness ==
  /\ gpc = "closed"
  /\ total_records = MaxRecords
  /\ completed = total_records
  /\ Cardinality(faulted) = 1
  /\ AllTasksDone
  /\ result_queue = <<>>

\* C18: apply_provider gives the status approved only to an application
\* whose submitted validation result has path GREEN, confidence_score >= 0.7
\* and does not require human review; every other application is
\* pending_review (path YELLOW, or 0.4 <= confidence_score < 0.7) or
\* flagged_for_review; so no application with path RED or ERROR, or that
\* requires human review, is approved.  The stored application carries the
\* returned status.
C18_ApprovedOnlyWhenClean ==
  (endpoint = "apply_provider" /\ spc = "returned" /\ response.success) =>
    LET v == aiParsedResult.value
        green == "path" \in DOMAIN v /\ v["path"] = "GREEN"
        yellow == "path" \in DOMAIN v /\ v["path"] = "YELLOW"
        high == "confidence_score" \in DOMAIN v /\ v["confidence_score"] >= APPROVE_SCORE
        middle == /\ "confidence_score" \in DOMAIN v
                  /\ v["confidence_score"] >= PENDING_SCORE
                  /\ v["confidence_score"] < APPROVE_SCORE
        review == "requires_human_review" \in DOMAIN v /\ v["requires_human_review"]
        clean == green /\ high /\ ~review
    IN /\ response.status = "approved" <=> clean
       /\ response.status = "pending_review" <=> (~clean /\ (yellow \/ middle))
       /\ response.status = "flagged_for_review" <=> (~clean /\ ~yellow /\ ~middle)
       /\ ("path" \in DOMAIN v /\ v["path"] \in {"RED", "ERROR"}) =>
            response.status # "approved"
       /\ review => response.status # "approved"
       /\ Len(applications) = 1
       /\ applications[1].status = response.status

\* a GREEN result with score 0.7 that requires review has been submitted and
\* flagged
C18_Witness ==
  /\ endpoint = "apply_provider"
  /\ spc = "returned"
  /\ response.success
  /\ aiParsedResult.value =
       [confidence_score |-> APPROVE_SCORE, path |-> "GREEN",
        requires_human_review |-> TRUE]
  /\ response.status = "flagged_for_review"
  /\ applications[1].status = "flagged_for_review"
====
